---- MODULE Spec2Model ----
(***************************************************************************)
(* The LanceDB vector store adapter of langchain-rust:                     *)
(*   src/src/vectorstore/lancedb/lancedb.rs  (Store)                       *)
(*   src/src/vectorstore/lancedb/builder.rs  (StoreBuilder)                *)
(*                                                                         *)
(* The columnar engine and the embedding provider are collaborators: each  *)
(* of their calls either fails or answers as its interface says, and the   *)
(* model chooses between the two nondeterministically.                     *)
(***************************************************************************)
EXTENDS Integers, Sequences, FiniteSets, TLC

\* ------------------------------------------------------------------ bounds

\* Largest number of Documents handed to one add_documents call.
MaxDocs == 2
\* Rows the table holds at most (add_documents is not taken beyond it).
MaxRows == 2
\* Identifiers Uuid::new_v4 hands out at most (a call that fails after it made
\* its identifiers uses them up without adding a row).
MaxUuids == MaxRows
\* Largest limit given to similarity_search.
MaxLimit == 2
\* Calls of connection / connection_url made on one StoreBuilder at most.
MaxSetterCalls == 2

\* ------------------------------------------------------------- JSON codec

\* A serde_json::Value leaf: a string or a number (its digits).
JStr(s) == [kind |-> "str", v |-> s]
JNum(s) == [kind |-> "num", v |-> s]

\* serde_json's Map orders its keys (BTreeMap): this is that order.
KeyOrder == <<"source", "topic">>

EmptyMeta == [k \in {} |-> JStr("")]

\* One lexical token of a JSON text.
Tok(t, v) == [t |-> t, v |-> v]

ValueToken(val) == Tok(val.kind, val.v)

RECURSIVE Members(_, _)
\* The members of an object, keys in `keys`, separated by commas.
Members(keys, meta) ==
    IF keys = <<>> THEN <<>>
    ELSE LET k == Head(keys)
             one == <<Tok("str", k), Tok("colon", ""), ValueToken(meta[k])>>
         IN  IF Tail(keys) = <<>> THEN one
             ELSE one \o <<Tok("comma", "")>> \o Members(Tail(keys), meta)

\* json!(d.metadata).to_string()
ToJsonString(meta) ==
    LET keys == SelectSeq(KeyOrder, LAMBDA k : k \in DOMAIN meta)
    IN  <<Tok("lbrace", "")>> \o Members(keys, meta) \o <<Tok("rbrace", "")>>

ParseFail == [ok |-> FALSE, value |-> EmptyMeta]

RECURSIVE ParseMembers(_, _, _)
\* Parses  key : value (, key : value)* }  from position i on.
ParseMembers(toks, i, acc) ==
    IF i + 3 > Len(toks) THEN ParseFail
    ELSE IF toks[i].t # "str" \/ toks[i + 1].t # "colon"
            \/ toks[i + 2].t \notin {"str", "num"} THEN ParseFail
    ELSE LET key == toks[i].v
             val == [kind |-> toks[i + 2].t, v |-> toks[i + 2].v]
             \* a repeated key keeps its last value
             acc2 == [k \in DOMAIN acc \cup {key} |-> IF k = key THEN val ELSE acc[k]]
         IN  IF toks[i + 3].t = "rbrace"
             THEN IF i + 3 = Len(toks) THEN [ok |-> TRUE, value |-> acc2] ELSE ParseFail
             ELSE IF toks[i + 3].t = "comma" THEN ParseMembers(toks, i + 4, acc2)
             ELSE ParseFail

\* serde_json::from_str::<HashMap<String, Value>>(text)
FromJsonString(toks) ==
    IF Len(toks) < 2 \/ toks[1].t # "lbrace" THEN ParseFail
    ELSE IF toks[2].t = "rbrace"
         THEN IF Len(toks) = 2 THEN [ok |-> TRUE, value |-> EmptyMeta] ELSE ParseFail
         ELSE ParseMembers(toks, 2, EmptyMeta)

\* ------------------------------------------------------------------ state

VARIABLES
    vector_dimensions,  \* Store.vector_dimensions
    tableNames,         \* the engine's tables (connection.table_names())
    schema,             \* the schema of the Store's table (<<>> while there is none)
    indices,            \* the vector indices of the Store's table, one column name each
    rows,               \* the rows of the Store's table, in append order
    ingested,           \* the Document each row was made from, row by row
    uuids,              \* how many identifiers Uuid::new_v4 has handed out
    last,               \* the call the caller awaits the result of: its inputs and
                        \* what it returned (Idle between two calls)
    prev,               \* what the caller keeps of the call before it
    builder,            \* the StoreBuilder's fields
    setterLog,          \* the connection / connection_url calls made on the builder
    built               \* what build() returned

vars == <<vector_dimensions, tableNames, schema, indices, rows, ingested, uuids,
          last, prev, builder, setterLog, built>>

storeVars == <<vector_dimensions, tableNames, schema, indices, rows, ingested, uuids,
               last, prev>>
builderVars == <<builder, setterLog, built>>

\* Store.table: the table this Store works on.
StoreTable == "documents"

\* The embedding column of the fixed schema.
EmbeddingColumn == "text_embedding"

Min(a, b) == IF a < b THEN a ELSE b

Range(s) == { s[i] : i \in DOMAIN s }

\* ------------------------------------------------------------- documents

Documents ==
    { [page_content |-> "Paris is the capital of France.",
       metadata |-> [k \in {"topic"} |-> JStr("geography")]],
      [page_content |-> "Capital of France is Paris.",
       metadata |-> EmptyMeta],
      [page_content |-> "langchain-rust is a port of langchain.",
       metadata |-> [k \in {"source", "topic"} |->
                        IF k = "source" THEN JNum("1") ELSE JStr("geography")]] }

\* The vector_dimensions a Store is configured with.
Dimensions == {1, 2}

RECURSIVE SeqsUpTo(_, _)
\* The sequences over S of length at most n.
SeqsUpTo(S, n) ==
    IF n = 0 THEN { <<>> }
    ELSE LET shorter == SeqsUpTo(S, n - 1)
         IN  shorter \cup { Append(s, x) : s \in shorter, x \in S }

DocLists == SeqsUpTo(Documents, MaxDocs)

\* ------------------------------------------------------------- embedder

\* The j-th component of the vector the embedder returns in place i: every
\* component is told apart from every other, so that a stored vector shows
\* which components it was built from.
VectorOf(i, len) == [j \in 1..len |-> 10 * i + j]

\* embed_documents(texts) of the active embedder (opt.embedder, or else the
\* Store's own): an error, or a list of vectors. Either provider is opaque: it may return a list of another length than texts, and vectors of
\* another length than the Store's vector_dimensions. `lens` is the length of
\* each vector returned.
EmbedOutcomes(n, dim) ==
    { [ok |-> FALSE, lens |-> <<>>] }
    \cup { [ok |-> TRUE, lens |-> l] : l \in [1..n -> (dim - 1)..(dim + 1)] }
    \cup { [ok |-> TRUE, lens |-> [i \in 1..c |-> dim]] : c \in (0..(n + 1)) \ {n} }

Vectors(lens) == [i \in 1..Len(lens) |-> VectorOf(i, lens[i])]

\* What is kept of a call once the caller has gone on: whether it was an
\* initialize() that found no table, created it and returned success.
Brief(call) ==
    [freshInit |-> call.op = "initialize" /\ call.kind = "ok" /\ call.created]

\* StoreBuilder::new
NewBuilder ==
    [connection |-> "None", connection_url |-> "None", table |-> "documents",
     vector_dimensions |-> 0, embedder |-> "None"]

Idle == [op |-> "idle", kind |-> "ok", created |-> FALSE]

Init ==
    /\ vector_dimensions \in Dimensions
    /\ tableNames = {}
    /\ schema = <<>>
    /\ indices = <<>>
    /\ rows = <<>>
    /\ ingested = <<>>
    /\ uuids = 0
    /\ last = Idle
    /\ prev = Brief(Idle)
    /\ builder = NewBuilder
    /\ setterLog = <<>>
    /\ built = [kind |-> "none"]

\* ------------------------------------------------------------ initialize

\* connection.create_empty_table(name, schema).execute()
CreateEmptyTable(name, fail) ==
    IF fail THEN "Error"
    ELSE IF name \in tableNames THEN "TableAlreadyExists"
    ELSE "Ok"

\* The schema create_table_if_not_exists asks for: column, type, and the
\* list size of the embedding column (0 for the others).
FixedSchema(dim) ==
    << [name |-> "id", type |-> "Utf8", size |-> 0],
       [name |-> "text", type |-> "Utf8", size |-> 0],
       [name |-> "metadata", type |-> "Utf8", size |-> 0],
       [name |-> EmbeddingColumn, type |-> "FixedSizeList<Float64>", size |-> dim] >>

\* As ProvisionResult, but "table already exists" is an error like any other.
ProvisionResultStrict(tb, failIndex) ==
    IF tb = "Ok" THEN (IF failIndex THEN "err" ELSE "ok") ELSE "err"

\* What create_table_if_not_exists returns, from what create_empty_table
\* answered (tb) and whether create_index failed.
ProvisionResult(tb, failIndex) ==
    IF tb = "Ok" THEN (IF failIndex THEN "err" ELSE "ok")
    ELSE IF tb = "TableAlreadyExists" THEN "ok"
    ELSE "err"

\* Store::initialize, which is Store::create_table_if_not_exists
Initialize(failCreate, failIndex) ==
    LET tb == CreateEmptyTable(StoreTable, failCreate)
        kind == ProvisionResult(tb, failIndex)
    IN  /\ last = Idle
        /\ tableNames' = IF tb = "Ok" THEN tableNames \cup {StoreTable} ELSE tableNames
        /\ schema' = IF tb = "Ok" THEN FixedSchema(vector_dimensions) ELSE schema
        /\ indices' = IF tb = "Ok" /\ ~failIndex
                      THEN Append(indices, EmbeddingColumn) ELSE indices
        /\ last' = [op |-> "initialize", kind |-> kind, created |-> (tb = "Ok"),
                    path |-> tb, before |-> [tableNames |-> tableNames, schema |-> schema,
                                             indices |-> indices, rows |-> rows]]
        /\ UNCHANGED <<vector_dimensions, rows, ingested, uuids, prev, builderVars>>

\* ------------------------------------------------------------ drop_table

\* The condition under which drop_table issues the engine's drop.
IssuesDrop(tables) == StoreTable \notin tables

\* Store::drop_table
DropTable(failList, failDrop) ==
    LET issued == ~failList /\ IssuesDrop(tableNames)
        \* connection.drop_table(name): an error when the table is not there
        dropped == issued /\ ~failDrop /\ StoreTable \in tableNames
        kind == IF failList THEN "err"
                ELSE IF issued /\ ~dropped THEN "err"
                ELSE "ok"
    IN  /\ last = Idle
        /\ tableNames' = IF dropped THEN tableNames \ {StoreTable} ELSE tableNames
        /\ schema' = IF dropped THEN <<>> ELSE schema
        /\ indices' = IF dropped THEN <<>> ELSE indices
        /\ rows' = IF dropped THEN <<>> ELSE rows
        /\ ingested' = IF dropped THEN <<>> ELSE ingested
        /\ last' = [op |-> "drop_table", kind |-> kind, created |-> FALSE,
                    listed |-> ~failList, issued |-> issued,
                    existed |-> (StoreTable \in tableNames)]
        /\ UNCHANGED <<vector_dimensions, uuids, prev, builderVars>>

\* --------------------------------------------------------- add_documents

\* As CountMismatch, but only too few vectors count as a mismatch.
CountMismatchTooFewOnly(nvectors, ndocs) == nvectors < ndocs

\* The check on the embedder's answer: TRUE when add_documents gives up.
CountMismatch(nvectors, ndocs) == nvectors # ndocs

\* As NewUuid, but one identifier is made for the whole call.
NewUuidOncePerCall(used, k) == used + 1

\* Uuid::new_v4(): the k-th identifier handed out after `used` earlier ones.
NewUuid(used, k) == used + k

\* Uuid::to_string(): a fixed-width text, two hexadecimal digits here.
UuidToString(u) == <<u \div 16, u % 16>>

\* docs.iter().zip(vectors).map(...): one VectorRecord for each pair, as many
\* as the shorter of the two.
VectorRecords(docs, vectors, used) ==
    [i \in 1..Min(Len(docs), Len(vectors)) |->
        [id |-> UuidToString(NewUuid(used, i)),
         text |-> docs[i].page_content,
         metadata |-> ToJsonString(docs[i].metadata),
         text_embedding |-> vectors[i]]]

RECURSIVE Flatten(_)
Flatten(vs) == IF vs = <<>> THEN <<>> ELSE Head(vs) \o Flatten(Tail(vs))

\* FixedSizeListArray::from_iter_primitive(iter, length): the builder takes
\* every component of every item into one child array and counts the items;
\* finishing it panics unless the child holds items * length components, and
\* the array's i-th value is the i-th run of `length` components.
FixedSizeListFromIter(vs, length) ==
    LET child == Flatten(vs)
    IN  IF Len(child) # Len(vs) * length
        THEN [ok |-> FALSE, values |-> <<>>]
        ELSE [ok |-> TRUE,
              values |-> [i \in 1..Len(vs) |->
                            SubSeq(child, (i - 1) * length + 1, i * length)]]

\* RecordBatch::try_new(schema, columns): an error unless every column has
\* the type its field has (for the list column, its size too). The three
\* string columns are Utf8 and the list is one of Float64 by construction.
BatchMatchesSchema(tableSchema, listSize) ==
    /\ Len(tableSchema) = 4
    /\ \A c \in 1..3 : tableSchema[c].type = "Utf8"
    /\ tableSchema[4].type = "FixedSizeList<Float64>"
    /\ tableSchema[4].size = listSize

\* The RecordBatch of the four columns, row by row.
RecordBatch(records, list) ==
    [i \in 1..Len(records) |->
        [id |-> records[i].id, text |-> records[i].text,
         metadata |-> records[i].metadata, text_embedding |-> list[i]]]

\* The engine calls of add_documents, each of which can fail.
AddFailures == {"none", "open", "schema", "open2", "add"}

\* The engine calls that add_documents gets to, given the embedder's answer.
AddFailuresAfter(docs, emb) ==
    IF ~emb.ok \/ CountMismatch(Len(emb.lens), Len(docs)) THEN {"none"} ELSE AddFailures

\* What add_documents does: what it returns, and the table and the
\* identifier source after it.
AddOutcome(docs, emb, fail) ==
    LET vectors == Vectors(emb.lens)
        stay == [ids |-> <<>>, rows |-> rows, uuids |-> uuids, appends |-> 0]
        absent == StoreTable \notin tableNames
        records == VectorRecords(docs, vectors, uuids)
        list == FixedSizeListFromIter([i \in 1..Len(records) |-> records[i].text_embedding],
                                      vector_dimensions)
        made == [stay EXCEPT !.uuids = uuids + Len(records)]
    IN  IF ~emb.ok THEN [kind |-> "err"] @@ stay
        ELSE IF CountMismatch(Len(vectors), Len(docs)) THEN [kind |-> "err"] @@ stay
        ELSE IF fail = "open" \/ absent THEN [kind |-> "err"] @@ stay
        ELSE IF fail = "schema" THEN [kind |-> "err"] @@ stay
        ELSE IF fail = "open2" THEN [kind |-> "err"] @@ made
        ELSE IF ~list.ok THEN [kind |-> "panic"] @@ made
        ELSE IF ~BatchMatchesSchema(schema, vector_dimensions) THEN [kind |-> "panic"] @@ made
        ELSE IF fail = "add" THEN [kind |-> "err"] @@ [made EXCEPT !.appends = 1]
        ELSE [kind |-> "ok",
              ids |-> [i \in 1..Len(records) |-> records[i].id],
              rows |-> rows \o RecordBatch(records, list.values),
              uuids |-> uuids + Len(records),
              appends |-> 1]

\* VectorStore::add_documents for Store
AddDocuments(docs, emb, fail) ==
    LET out == AddOutcome(docs, emb, fail)
    IN  /\ last = Idle
        /\ rows' = out.rows
        /\ ingested' = IF out.kind = "ok" THEN ingested \o docs ELSE ingested
        /\ uuids' = out.uuids
        /\ last' = [op |-> "add_documents", kind |-> out.kind, created |-> FALSE,
                    docs |-> docs, embedded |-> emb.ok, lens |-> emb.lens,
                    ids |-> out.ids, appends |-> out.appends,
                    before |-> [rows |-> rows]]
        /\ UNCHANGED <<vector_dimensions, tableNames, schema, indices, prev, builderVars>>

\* ----------------------------------------------------- similarity_search

\* The distances the engine reports.
Distances == {0, 1}

\* As QueryLimit, but one more row is asked for.
QueryLimitOffByOne(limit) == limit + 1

\* The number handed to the query's .limit(): the caller's limit.
QueryLimit(limit) == limit

RECURSIVE NearestFrom(_, _, _)
\* The k places of `among` nearest under `dist`, nearest first (ties by place).
NearestFrom(among, dist, k) ==
    IF k = 0 \/ among = {} THEN <<>>
    ELSE LET i == CHOOSE a \in among :
                    \A b \in among : dist[a] < dist[b] \/ (dist[a] = dist[b] /\ a <= b)
         IN  <<i>> \o NearestFrom(among \ {i}, dist, k - 1)

\* table.query().nearest_to(v).column(..).distance_type(Cosine).limit(k)
\* .execute(): the k nearest rows, each with its _distance, nearest first.
\* `dist` is the distance of each row from the query vector.
NearestRows(dist, k) ==
    LET places == NearestFrom(DOMAIN rows, dist, k)
    IN  [n \in 1..Len(places) |->
            [text |-> rows[places[n]].text,
             metadata |-> rows[places[n]].metadata,
             _distance |-> dist[places[n]],
             place |-> places[n]]]

\* As ScoreOf, but the distance is turned into a similarity.
ScoreAsSimilarity(distance) == 1 - distance

\* scores.value(i).into(): an f32 widened to f64, which keeps its value.
ScoreOf(distance) == distance

\* One Document from one returned row.
DecodeRow(hit) ==
    [page_content |-> hit.text,
     metadata |-> FromJsonString(hit.metadata).value,
     score |-> ScoreOf(hit._distance)]

\* The steps of similarity_search at which a collaborator can fail.
SearchFailures == {"none", "embed", "open", "nearest_to", "execute", "collect"}

\* The distances the engine may report for the rows: none are asked for
\* when the call fails before the query runs.
SearchDistances(fail) ==
    IF fail = "none" /\ StoreTable \in tableNames
    THEN [DOMAIN rows -> Distances]
    ELSE { [i \in DOMAIN rows |-> 0] }

\* What similarity_search returns.
SearchOutcome(limit, dist, fail) ==
    LET absent == StoreTable \notin tableNames
        hits == NearestRows(dist, QueryLimit(limit))
        none == [items |-> <<>>, hits |-> <<>>]
    IN  IF fail = "embed" THEN [kind |-> "err"] @@ none
        ELSE IF fail = "open" \/ absent THEN [kind |-> "err"] @@ none
        ELSE IF fail \in {"nearest_to", "execute", "collect"} THEN [kind |-> "panic"] @@ none
        ELSE IF \E n \in DOMAIN hits : ~FromJsonString(hits[n].metadata).ok
             THEN [kind |-> "panic", items |-> <<>>, hits |-> hits]
        ELSE [kind |-> "ok",
              items |-> [n \in DOMAIN hits |-> DecodeRow(hits[n])],
              hits |-> hits]

\* VectorStore::similarity_search for Store
SimilaritySearch(limit, dist, fail) ==
    LET out == SearchOutcome(limit, dist, fail)
    IN  /\ last = Idle
        /\ last' = [op |-> "similarity_search", kind |-> out.kind, created |-> FALSE,
                    limit |-> limit, fail |-> fail,
                    items |-> out.items, hits |-> out.hits]
        /\ UNCHANGED <<vector_dimensions, tableNames, schema, indices, rows, ingested, uuids,
                       prev, builderVars>>

\* ------------------------------------------------------------------ caller

\* The caller has the result of its call (it awaits each call before it makes
\* the next one) and goes on.
Resume ==
    /\ last # Idle
    /\ last' = Idle
    /\ prev' = Brief(last)
    /\ UNCHANGED <<vector_dimensions, tableNames, schema, indices, rows, ingested, uuids,
                   builderVars>>

Next ==
    \/ Resume
    \/ \E failCreate \in BOOLEAN, failIndex \in BOOLEAN :
          Initialize(failCreate, failIndex)
    \/ \E failList \in BOOLEAN, failDrop \in BOOLEAN :
          DropTable(failList, failDrop)
    \/ /\ last = Idle
       /\ \E docs \in { d \in DocLists : /\ Len(rows) + Len(d) <= MaxRows
                                         /\ uuids + Len(d) <= MaxUuids } :
             \E emb \in EmbedOutcomes(Len(docs), vector_dimensions) :
                \E fail \in AddFailuresAfter(docs, emb) :
                   AddDocuments(docs, emb, fail)
    \/ /\ last = Idle
       /\ \E limit \in 0..MaxLimit, fail \in SearchFailures :
             \E dist \in SearchDistances(fail) :
                SimilaritySearch(limit, dist, fail)

Spec == Init /\ [][Next]_vars

\* ------------------------------------------------------------ StoreBuilder

\* The connection handles and URLs a caller gives the builder.
Handles == {"handle1", "handle2"}
Urls == {"./tmp/lance", "memory://other"}

\* The path build() connects to when no URL was given.
DefaultUrl == "./tmp/tmp_lancedb"

\* As WithConnection, but the URL set earlier is kept.
WithConnectionKeepingUrl(b, h) == [b EXCEPT !.connection = h]

\* StoreBuilder::connection: the fields after it.
WithConnection(b, h) == [b EXCEPT !.connection = h, !.connection_url = "None"]

\* StoreBuilder::connection_url: the fields after it.
WithConnectionUrl(b, u) == [b EXCEPT !.connection_url = u, !.connection = "None"]

Unbuilt == built.kind = "none"

\* StoreBuilder::connection
SetConnection(h) ==
    /\ Unbuilt
    /\ Len(setterLog) < MaxSetterCalls
    /\ builder' = WithConnection(builder, h)
    /\ setterLog' = Append(setterLog, [setter |-> "connection", arg |-> h])
    /\ UNCHANGED <<built, storeVars>>

\* StoreBuilder::connection_url
SetConnectionUrl(u) ==
    /\ Unbuilt
    /\ Len(setterLog) < MaxSetterCalls
    /\ builder' = WithConnectionUrl(builder, u)
    /\ setterLog' = Append(setterLog, [setter |-> "connection_url", arg |-> u])
    /\ UNCHANGED <<built, storeVars>>

\* StoreBuilder::table
SetTable(t) ==
    /\ Unbuilt
    /\ builder' = [builder EXCEPT !.table = t]
    /\ UNCHANGED <<setterLog, built, storeVars>>

\* StoreBuilder::vector_dimensions
SetVectorDimensions(d) ==
    /\ Unbuilt
    /\ builder' = [builder EXCEPT !.vector_dimensions = d]
    /\ UNCHANGED <<setterLog, built, storeVars>>

\* StoreBuilder::embedder
SetEmbedder(e) ==
    /\ Unbuilt
    /\ builder' = [builder EXCEPT !.embedder = e]
    /\ UNCHANGED <<setterLog, built, storeVars>>

\* What build() returns for the fields b; failConnect: connect(..) fails.
BuildResult(b, failConnect) ==
    IF b.embedder = "None" THEN [kind |-> "err", error |-> "Embedder is required"]
    ELSE LET connection_str == IF b.connection_url = "None" THEN DefaultUrl
                               ELSE b.connection_url
         IN  IF b.connection = "None" /\ failConnect
             THEN [kind |-> "err", error |-> "connect"]
             ELSE [kind |-> "ok",
                   store |-> [connection |-> IF b.connection = "None"
                                             THEN [via |-> "connect", of |-> connection_str]
                                             ELSE [via |-> "handle", of |-> b.connection],
                              table |-> b.table,
                              vector_dimensions |-> b.vector_dimensions,
                              embedder |-> b.embedder]]

\* StoreBuilder::build, which takes the builder
Build(failConnect) ==
    /\ Unbuilt
    /\ built' = BuildResult(builder, failConnect)
    /\ UNCHANGED <<builder, setterLog, storeVars>>

NextBuilder ==
    \/ \E h \in Handles : SetConnection(h)
    \/ \E u \in Urls : SetConnectionUrl(u)
    \/ \E t \in {"documents", "notes"} : SetTable(t)
    \/ \E d \in {0, 128, 384} : SetVectorDimensions(d)
    \/ \E e \in {"FastEmbed"} : SetEmbedder(e)
    \/ \E failConnect \in BOOLEAN : Build(failConnect)

SpecBuilder == Init /\ [][NextBuilder]_vars

\* ------------------------------------------------------------------ claims

TableExists == StoreTable \in tableNames

HasVectorIndex == EmbeddingColumn \in Range(indices)

\* C1: whenever initialize() returns success, the table exists and has a
\* vector index on its embedding column, whatever initialize() calls came
\* before (one that created the table and failed at the index included).
C1_InitializeEnsuresIndex ==
    (last.op = "initialize" /\ last.kind = "ok") => (TableExists /\ HasVectorIndex)

\* C2: an initialize() that follows at once an initialize() that found no
\* table, created it and succeeded, returns success by the "table already
\* exists" path (its create_empty_table call not failing otherwise), and
\* leaves exactly one table, of the fixed schema, with exactly one vector
\* index, and the table, its schema, its indices and its rows as they were.
C2_InitializeTwice ==
    (prev.freshInit /\ last.op = "initialize" /\ last.path # "Error") =>
        /\ last.kind = "ok"
        /\ last.path = "TableAlreadyExists"
        /\ ~last.created
        /\ tableNames = {StoreTable}
        /\ schema = FixedSchema(vector_dimensions)
        /\ indices = <<EmbeddingColumn>>
        /\ tableNames = last.before.tableNames
        /\ schema = last.before.schema
        /\ indices = last.before.indices
        /\ rows = last.before.rows

\* C2's case: the second of two initialize() calls in a row on a fresh store
\* has returned success.
C2_Witness ==
    prev.freshInit /\ last.op = "initialize" /\ last.kind = "ok"

\* C3: when the embedder returns a number of vectors other than the number
\* of documents, add_documents returns an error, issues no append and leaves
\* the rows of the table as they were.
C3_CountMismatchFailsClosed ==
    (last.op = "add_documents" /\ last.embedded /\ Len(last.lens) # Len(last.docs)) =>
        /\ last.kind = "err"
        /\ last.appends = 0
        /\ rows = last.before.rows

\* C3's case: on an existing table, the embedder returned three vectors for
\* two documents.
C3_Witness ==
    /\ last.op = "add_documents" /\ last.embedded
    /\ Len(last.docs) = 2 /\ Len(last.lens) = 3
    /\ TableExists

\* C4: a successful add_documents on N documents returns N non-empty,
\* pairwise distinct identifiers, the i-th being the id of the row appended
\* for the i-th document (whose text is that document's page_content), and
\* appends exactly N rows in one engine append call.
C4_IdsAlignedWithRows ==
    (last.op = "add_documents" /\ last.kind = "ok") =>
        LET n == Len(last.docs)
            b == Len(last.before.rows)
        IN  /\ Len(last.ids) = n
            /\ \A i \in 1..n : Len(last.ids[i]) > 0
            /\ \A i, j \in 1..n : i # j => last.ids[i] # last.ids[j]
            /\ last.appends = 1
            /\ Len(rows) = b + n
            /\ SubSeq(rows, 1, b) = last.before.rows
            /\ \A i \in 1..n : /\ rows[b + i].id = last.ids[i]
                               /\ rows[b + i].text = last.docs[i].page_content

\* C4's case: two documents were added in one successful call.
C4_Witness ==
    last.op = "add_documents" /\ last.kind = "ok" /\ Len(last.docs) = 2

C6_RoundTrip ==
    (last.op = "similarity_search" /\ last.kind = "ok" /\ last.limit = 1
        /\ Len(rows) = 1) =>
        /\ Len(last.items) = 1
        /\ Len(ingested) = 1
        /\ last.items[1].page_content = ingested[1].page_content
        /\ last.items[1].metadata = ingested[1].metadata
        /\ last.items[1].score = last.hits[1]._distance

\* C6's case: the Document added had two metadata entries, and the engine
\* reported a distance other than 0.
C6_Witness ==
    /\ last.op = "similarity_search" /\ last.kind = "ok" /\ last.limit = 1
    /\ Len(rows) = 1 /\ Len(last.items) = 1
    /\ DOMAIN ingested[1].metadata = {"source", "topic"}
    /\ last.hits[1]._distance = 1

\* C7: every failure inside similarity_search (of the query embedding, of
\* opening the table, of building or running the query, of collecting its
\* result, of decoding a row's metadata) makes the call return an error
\* value: it never aborts the caller.
C7_SearchFailuresAreErrors ==
    last.op = "similarity_search" =>
        /\ last.kind # "panic"
        /\ (last.fail # "none" => last.kind = "err")

\* C8: when a vector the embedder returned has another length than
\* vector_dimensions, add_documents fails and appends no row.
C8_WrongLengthFails ==
    (last.op = "add_documents" /\ last.embedded
        /\ \E i \in DOMAIN last.lens : last.lens[i] # vector_dimensions) =>
        /\ last.kind # "ok"
        /\ rows = last.before.rows

\* The connection build() is to resolve to after the setter calls made.
ExpectedConnection ==
    LET n == Len(setterLog)
    IN  IF n = 0 THEN [via |-> "connect", of |-> DefaultUrl]
        ELSE IF setterLog[n].setter = "connection"
             THEN [via |-> "handle", of |-> setterLog[n].arg]
             ELSE [via |-> "connect", of |-> setterLog[n].arg]

\* C9: after any calls of connection(h) and connection_url(u), at most one of
\* the two fields is set, and it is the one the last call set; build() with
\* an embedder resolves to it: the handle given, a connection opened on the
\* URL given, or one opened on the default path when neither was called
\* (and fails only when that connection cannot be opened).
C9_LastWriterWins ==
    LET n == Len(setterLog)
    IN  /\ ~(builder.connection # "None" /\ builder.connection_url # "None")
        /\ n = 0 => (builder.connection = "None" /\ builder.connection_url = "None")
        /\ (n > 0 /\ setterLog[n].setter = "connection") =>
              (builder.connection = setterLog[n].arg /\ builder.connection_url = "None")
        /\ (n > 0 /\ setterLog[n].setter = "connection_url") =>
              (builder.connection_url = setterLog[n].arg /\ builder.connection = "None")
        /\ built.kind = "ok" => built.store.connection = ExpectedConnection
        /\ (built.kind = "err" /\ builder.embedder # "None") =>
              (built.error = "connect" /\ ExpectedConnection.via = "connect")

\* C9's case: connection was called, then connection_url, and build()
\* returned a Store.
C9_Witness ==
    /\ Len(setterLog) = 2
    /\ setterLog[1].setter = "connection"
    /\ setterLog[2].setter = "connection_url"
    /\ built.kind = "ok"

\* C10: drop_table (its listing of the tables not failing) issues the
\* engine's drop exactly when the Store's table is in the list: after a
\* successful drop_table the table is gone, and when there is no table no
\* drop is issued and the call succeeds.
C10_DropsWhenPresent ==
    (last.op = "drop_table" /\ last.listed) =>
        /\ last.issued <=> last.existed
        /\ last.kind = "ok" => ~TableExists
        /\ ~last.existed => last.kind = "ok"

====
